---- MODULE Spec2Model ----
(***************************************************************************)
(* The frontend protocol engine (PgIO) and the statement layer (PgStmt) of *)
(* the pg driver, as one state machine: one connection, its serialised     *)
(* caller, the cancellation watcher goroutine of ExecContext/QueryContext, *)
(* and the backend with the network as the environment.                    *)
(***************************************************************************)
EXTENDS Integers, Sequences, FiniteSets, TLC

VARIABLES
    pc,             \* position of the caller goroutine
    IOError,        \* PgIO.IOError: "nil", "io" (a socket error) or "badconn"
    conn,           \* PgIO.conn, the primary socket: "open" or "closed" (by us)
    net,            \* the primary socket's connection: "up" or "down"
    junk,           \* bytes of a cut length field left in PgIO.reader
    txStatus,       \* PgIO.txStatus
    serverPid,      \* PgIO.serverPid
    backendKey,     \* PgIO.backendKey
    ServerConf,     \* PgIO.ServerConf
    Location,       \* PgIO.Location
    stmts,          \* PgConn.stmts: statement name -> *PgStmt
    loose,          \* the statements of NewNoPortalPgStmt, which no map holds
    cur,            \* the call in progress (or just returned)
    watcher,        \* position of the watchCancel goroutine
    ctx,            \* the context of the call in progress
    cancelInFlight, \* a CancelRequest frame the backend has not yet acted on
    side,           \* the side connection of the last CancelRequest
    lastRFQ,        \* history: status byte of the last ReadyForQuery read
    lastKey,        \* history: the last BackendKeyData read
    awaiting,       \* history: a request went out whose response has not been
                    \* read up to its ReadyForQuery
    accepted        \* history: the statement names whose Parse the server accepted

vars == <<pc, IOError, conn, net, junk, txStatus, serverPid, backendKey,
          ServerConf, Location, stmts, loose, cur, watcher, ctx,
          cancelInFlight, side, lastRFQ, lastKey, awaiting, accepted>>

\* history: a read or a write on the primary socket has failed (the connection
\* is down from then on)
sockFailed == net = "down"

(***************************************************************************)
(* Bounds of the model.                                                    *)
(***************************************************************************)
\* statements of NewNoPortalPgStmt (they are never cached) that the caller
\* holds at a time
MaxNoPortal == 1
\* bytes of a length field that arrive before the stream ends (the field has
\* four, so at most three)
MaxJunk == 1
\* messages of a stream given to receivePgMsg on its own
MaxStream == 3

(***************************************************************************)
(* Program constants.                                                      *)
(***************************************************************************)
\* the magic number of a CancelRequest frame
CancelRequestCode == 80877102

(***************************************************************************)
(* Backend messages.  id is the identifier byte; a and b are the int32s of *)
(* the payload (Authentication: a is the code; BackendKeyData: a the pid,  *)
(* b the key; ErrorResponse: a the SQLSTATE); s its strings                *)
(* (ReadyForQuery: the status byte; CommandComplete: the tag, split at     *)
(* spaces; ParameterStatus: key and value).                                *)
(***************************************************************************)
Msg(id, a, b, s) == [id |-> id, a |-> a, b |-> b, s |-> s]

IdentifiesAuth == "R"
IdentifiesReadyForQuery == "Z"
IdentifiesErrorResponse == "E"
IdentifiesBackendKeyData == "K"
IdentifiesParameterStatus == "S"
IdentifiesCommandComplete == "C"
IdentifiesDataRow == "D"
IdentifiesRowDescription == "T"
IdentifiesParameterDescription == "t"

Auth(code) == Msg(IdentifiesAuth, code, 0, <<>>)
Ready(st) == Msg(IdentifiesReadyForQuery, 0, 0, <<st>>)
ErrorResponse(sqlstate) == Msg(IdentifiesErrorResponse, sqlstate, 0, <<>>)
KeyData(pid, key) == Msg(IdentifiesBackendKeyData, pid, key, <<>>)
ParameterStatus(k, v) == Msg(IdentifiesParameterStatus, 0, 0, <<k, v>>)
CommandComplete(tag) == Msg(IdentifiesCommandComplete, 0, 0, tag)
Plain(id) == Msg(id, 0, 0, <<>>)

\* PgMessage.ParseError: the error an ErrorResponse carries
ParseError(m) == "srv" \o ToString(m.a)

(***************************************************************************)
(* What the primary socket delivers to one read loop: the messages that    *)
(* arrive whole, then how the stream goes on.  cut = "none": it goes on;   *)
(* "id": it ends at a message boundary; "len": it ends inside the length   *)
(* field of the next message, j of whose bytes arrived; "payload": it ends *)
(* inside the next message's payload.                                      *)
(***************************************************************************)
Delivery(msgs, cut, j) == [msgs |-> msgs, cut |-> cut, j |-> j]

Whole(resp) == Delivery(resp, "none", 0)

Cuts(resp) ==
    { Delivery(SubSeq(resp, 1, k - 1), "id", 0) : k \in 1..Len(resp) }
    \cup { Delivery(SubSeq(resp, 1, k - 1), "payload", 0) : k \in 1..Len(resp) }
    \cup { Delivery(SubSeq(resp, 1, k - 1), "len", j) :
             k \in 1..Len(resp), j \in 0..MaxJunk }

\* what a dead socket still delivers: the bytes left in the buffered reader
Dead(j) == IF j > 0 THEN Delivery(<<>>, "len", j - 1) ELSE Delivery(<<>>, "id", 0)


(***************************************************************************)
(* PgIO.receivePgMsg: read messages from delivery d, from its i-th on,     *)
(* appending each to ms, until one with identifier sep has been read.      *)
(* A failed read of the identifier byte sets IOError (ioerr); a failed     *)
(* read of the length field or of the payload only returns the error.      *)
(* next is the index of the first message not consumed, j the bytes left   *)
(* in the reader.                                                          *)
(***************************************************************************)
RecvResult(ms, err, ioerr, next, j) ==
    [ms |-> ms, err |-> err, ioerr |-> ioerr, next |-> next, j |-> j]

\* receivePgMsg as it would be if an ErrorResponse ended the receipt
RECURSIVE receivePgMsgStopAtError(_, _, _, _)
receivePgMsgStopAtError(d, i, sep, ms) ==
    IF i > Len(d.msgs)
    THEN CASE d.cut = "len"     -> RecvResult(ms, "io", FALSE, i, d.j)
           [] d.cut = "payload" -> RecvResult(ms, "io", FALSE, i, 0)
           [] OTHER             -> RecvResult(ms, "io", TRUE, i, 0)
    ELSE IF d.msgs[i].id \in {sep, IdentifiesErrorResponse}
         THEN RecvResult(Append(ms, d.msgs[i]), "nil", FALSE, i + 1, 0)
         ELSE receivePgMsgStopAtError(d, i + 1, sep, Append(ms, d.msgs[i]))

\* receivePgMsg as it would be if it compared with sep before appending
RECURSIVE receivePgMsgDropsSep(_, _, _, _)
receivePgMsgDropsSep(d, i, sep, ms) ==
    IF i > Len(d.msgs)
    THEN CASE d.cut = "len"     -> RecvResult(ms, "io", FALSE, i, d.j)
           [] d.cut = "payload" -> RecvResult(ms, "io", FALSE, i, 0)
           [] OTHER             -> RecvResult(ms, "io", TRUE, i, 0)
    ELSE IF d.msgs[i].id = sep
         THEN RecvResult(ms, "nil", FALSE, i + 1, 0)
         ELSE receivePgMsgDropsSep(d, i + 1, sep, Append(ms, d.msgs[i]))

RECURSIVE receivePgMsg(_, _, _, _)
receivePgMsg(d, i, sep, ms) ==
    IF i > Len(d.msgs)
    THEN CASE d.cut = "len"     -> RecvResult(ms, "io", FALSE, i, d.j)
           [] d.cut = "payload" -> RecvResult(ms, "io", FALSE, i, 0)
           [] OTHER             -> RecvResult(ms, "io", TRUE, i, 0)
    ELSE IF d.msgs[i].id = sep
         THEN RecvResult(Append(ms, d.msgs[i]), "nil", FALSE, i + 1, 0)
         ELSE receivePgMsg(d, i + 1, sep, Append(ms, d.msgs[i]))

(***************************************************************************)
(* PgIO.receivePgMsgOnce: read the i-th message of d; an ErrorResponse is  *)
(* returned as the error.                                                  *)
(***************************************************************************)
receivePgMsgOnce(d, i) ==
    IF i > Len(d.msgs)
    THEN CASE d.cut = "len"     -> RecvResult(<<>>, "io", FALSE, i, d.j)
           [] d.cut = "payload" -> RecvResult(<<>>, "io", FALSE, i, 0)
           [] OTHER             -> RecvResult(<<>>, "io", TRUE, i, 0)
    ELSE IF d.msgs[i].id = IdentifiesErrorResponse
         THEN RecvResult(<<d.msgs[i]>>, ParseError(d.msgs[i]), FALSE, i + 1, 0)
         ELSE RecvResult(<<d.msgs[i]>>, "nil", FALSE, i + 1, 0)

(***************************************************************************)
(* PgIO.send: one Write of the whole batch; its error, nil included, is    *)
(* assigned to IOError.                                                    *)
(***************************************************************************)
send(wok) == IF wok THEN "nil" ELSE "io"

\* the calls of conn.Write that send(list...) makes, each with the messages of
\* its buffer: one, with the encodings of the whole list appended in order
\* (first as it would be if send wrote message by message)
SendWritesEach(list) == [k \in 1..Len(list) |-> <<list[k]>>]

SendWrites(list) == <<list>>

(***************************************************************************)
(* The loops over the received list, shared by QueryNoArgs, Parse,         *)
(* ParseExec, ParseQuery and CloseParse: the error of the last             *)
(* ErrorResponse, the status byte of the last ReadyForQuery.               *)
(***************************************************************************)
RECURSIVE ListError(_, _)
ListError(ms, err) ==
    IF ms = <<>> THEN err
    ELSE ListError(Tail(ms),
                   IF Head(ms).id = IdentifiesErrorResponse
                   THEN ParseError(Head(ms)) ELSE err)

RECURSIVE ListStatus(_, _)
ListStatus(ms, tx) ==
    IF ms = <<>> THEN tx
    ELSE ListStatus(Tail(ms),
                    IF Head(ms).id = IdentifiesReadyForQuery
                    THEN Head(ms).s[1] ELSE tx)

\* strconv.Atoi on the decimal strings the tags of the model use (0 on error)
Atoi(str) ==
    CASE str = "0" -> 0 [] str = "1" -> 1 [] str = "2" -> 2 [] str = "3" -> 3
      [] str = "5" -> 5 [] OTHER -> 0

\* ParseExec's CommandComplete case: the count of a two-field tag
RECURSIVE ListRows(_, _)
ListRows(ms, n) ==
    IF ms = <<>> THEN n
    ELSE ListRows(Tail(ms),
                  IF Head(ms).id = IdentifiesCommandComplete /\ Len(Head(ms).s) = 2
                  THEN Atoi(Head(ms).s[2]) ELSE n)


(***************************************************************************)
(* The handshake.  An engine state e is the record of the PgIO fields the  *)
(* handshake writes, with the error to return (err), the index of the next *)
(* message of the delivery (next), the bytes left in the reader (j) and    *)
(* whether a read or write failed (failed).                                *)
(***************************************************************************)
ConfKeys == {"TimeZone", "server_version"}

\* time.LoadLocation succeeds on the zone names the host knows
KnownZones == {"UTC"}

NewPgIO ==
    [IOError |-> "nil", txStatus |-> "", serverPid |-> 0, backendKey |-> 0,
     ServerConf |-> [k \in ConfKeys |-> ""], Location |-> "",
     err |-> "nil", next |-> 1, j |-> 0, failed |-> FALSE]

\* how a failed receive ends a call
RecvFailed(e, r) ==
    [e EXCEPT !.err = r.err,
              !.IOError = IF r.ioerr THEN "io" ELSE @,
              !.next = r.next, !.j = r.j, !.failed = (r.err = "io")]

(***************************************************************************)
(* PgIO.auth on Authentication message m, the delivery going on at i.      *)
(* Codes 3 and 5 send the PasswordMessage (pwok: the write succeeds) and   *)
(* read up to the next Authentication message; any other code returns nil. *)
(***************************************************************************)
auth(e, m, d, i, pwok) ==
    IF m.a \in {3, 5}
    THEN IF send(pwok) /= "nil"
         THEN [e EXCEPT !.IOError = "io", !.err = "io", !.next = i, !.failed = TRUE]
         ELSE LET r == receivePgMsg(d, i, IdentifiesAuth, <<>>)
                  e1 == [e EXCEPT !.IOError = "nil"]
              IN  IF r.err /= "nil"
                  THEN RecvFailed(e1, r)
                  ELSE IF \E k \in 1..Len(r.ms) :
                              r.ms[k].id = IdentifiesAuth /\ r.ms[k].a /= 0
                       THEN [e1 EXCEPT !.err = "unexpected authentication response",
                                       !.next = r.next]
                       ELSE [e1 EXCEPT !.next = r.next]
    ELSE [e EXCEPT !.next = i]

(***************************************************************************)
(* The ParameterStatus case of StartUp's loop: a TimeZone value sets       *)
(* Location, to nil when time.LoadLocation fails; every key is stored in   *)
(* ServerConf, over the value it had.                                      *)
(***************************************************************************)
\* the case as it would be if it kept the first value of a key
ParameterStatusCaseKeepsFirst(e, m) ==
    IF e.ServerConf[m.s[1]] /= "" THEN e
    ELSE [e EXCEPT !.Location = IF m.s[1] = "TimeZone"
                                THEN (IF m.s[2] \in KnownZones THEN m.s[2] ELSE "")
                                ELSE @,
                   !.ServerConf[m.s[1]] = m.s[2]]

ParameterStatusCase(e, m) ==
    [e EXCEPT !.Location = IF m.s[1] = "TimeZone"
                           THEN (IF m.s[2] \in KnownZones THEN m.s[2] ELSE "")
                           ELSE @,
              !.ServerConf[m.s[1]] = m.s[2]]

(***************************************************************************)
(* The receive loop of PgIO.StartUp, from the i-th message of d.           *)
(***************************************************************************)
RECURSIVE StartUpLoop(_, _, _, _)
StartUpLoop(e, d, i, pwok) ==
    LET r == receivePgMsgOnce(d, i)
    IN  IF r.err /= "nil"
        THEN RecvFailed(e, r)
        ELSE LET m == r.ms[1]
             IN  CASE m.id = IdentifiesAuth ->
                        LET a == auth(e, m, d, r.next, pwok)
                        IN  IF a.err /= "nil" THEN a
                            ELSE StartUpLoop(a, d, a.next, pwok)
                   [] m.id = IdentifiesParameterStatus ->
                        StartUpLoop(ParameterStatusCase(e, m), d, r.next, pwok)
                   [] m.id = IdentifiesBackendKeyData ->
                        StartUpLoop([e EXCEPT !.serverPid = m.a, !.backendKey = m.b],
                                    d, r.next, pwok)
                   [] m.id = IdentifiesReadyForQuery ->
                        [e EXCEPT !.txStatus = m.s[1], !.next = r.next]
                   [] OTHER -> StartUpLoop(e, d, r.next, pwok)

(***************************************************************************)
(* History of what a call consumed: the status byte of the last            *)
(* ReadyForQuery, the last BackendKeyData.                                 *)
(***************************************************************************)
RECURSIVE LastKeyData(_, _)
LastKeyData(ms, k) ==
    IF ms = <<>> THEN k
    ELSE LastKeyData(Tail(ms),
                     IF Head(ms).id = IdentifiesBackendKeyData
                     THEN <<Head(ms).a, Head(ms).b>> ELSE k)

Consumed(d, next) == SubSeq(d.msgs, 1, next - 1)

\* history: the last value of each ParameterStatus key among ms
RECURSIVE LastConf(_, _)
LastConf(ms, conf) ==
    IF ms = <<>> THEN conf
    ELSE LastConf(Tail(ms),
                  IF Head(ms).id = IdentifiesParameterStatus
                  THEN [conf EXCEPT ![Head(ms).s[1]] = Head(ms).s[2]] ELSE conf)

\* history: the tag of the last CommandComplete among ms
RECURSIVE LastTag(_, _)
LastTag(ms, t) ==
    IF ms = <<>> THEN t
    ELSE LastTag(Tail(ms),
                 IF Head(ms).id = IdentifiesCommandComplete THEN Head(ms).s ELSE t)

(***************************************************************************)
(* What the backend sends in a handshake.  The authentication exchange:    *)
(* AuthenticationOk at once; a cleartext or MD5 challenge answered by      *)
(* AuthenticationOk, or by ErrorResponse and the end of the stream; any    *)
(* other request (2 Kerberos, 10 SASL), after which the backend waits for  *)
(* an answer and gives up.  Then ParameterStatus, BackendKeyData and       *)
(* ReadyForQuery.                                                          *)
(***************************************************************************)
HandshakeTails ==
    { <<ParameterStatus("TimeZone", "UTC"),
        ParameterStatus("TimeZone", "Mars/Phobos"),
        ParameterStatus("server_version", "12.0"),
        ParameterStatus("server_version", "13.0"),
        KeyData(3, 4), KeyData(1, 2), Ready("I")>> }

HandshakesOk ==
    { <<Auth(0)>> \o t : t \in HandshakeTails }
    \cup { <<Auth(c), Auth(0)>> \o t : c \in {3, 5}, t \in HandshakeTails }

HandshakesRefused ==
    { <<ErrorResponse(28000)>> }
    \cup { <<Auth(c), ErrorResponse(28000)>> : c \in {3, 5} }
    \cup { <<Auth(c)>> : c \in {2, 10} }
    \cup { <<Auth(c), ErrorResponse(28000)>> : c \in {2, 10} }

HandshakeDeliveries ==
    { Whole(h) : h \in HandshakesOk }
    \cup { Delivery(h, "id", 0) : h \in HandshakesRefused }
    \cup UNION { Cuts(h) : h \in HandshakesOk }

(***************************************************************************)
(* The statement layer.                                                    *)
(***************************************************************************)
\* the SQL texts the caller prepares
SQLs == {"SELECT 1", "UPDATE t"}

\* the SQL text the caller gives NewNoPortalPgStmt, which reads it only to send
\* it in the Parse message
NoPortalSQLs == {"SELECT 1"}

\* fmt.Sprintf("%x", crc32.ChecksumIEEE(query)), on the texts of the model
StmtId(query) == IF query = "UPDATE t" THEN "9e3c" ELSE "5b1f"

StmtIds == { StmtId(q) : q \in SQLs }

\* the places for the statements of NewNoPortalPgStmt that the caller holds
LooseRefs == { "#" \o ToString(k) : k \in 1..MaxNoPortal }

\* new(PgStmt) with the fields NewPgStmt and NewNoPortalPgStmt set
PgStmt(id, query) == [Identifies |-> id, Sql |-> query, resultSig |-> "open"]

\* a nil *PgStmt
NoStmt == [Identifies |-> "", Sql |-> "", resultSig |-> "nil"]

\* a statement of NewNoPortalPgStmt that its caller dropped (after Close, or
\* because it came with an error): nothing refers to it any more, and its
\* place is free
Dropped == NoStmt

Obj(st) == IF st \in StmtIds THEN stmts[st] ELSE loose[st]

\* the statements the caller may use: those of the cache, which NewPgStmt
\* hands out again, and the ones of NewNoPortalPgStmt it still holds
Held ==
    { id \in StmtIds : stmts[id] /= NoStmt }
    \cup { k \in LooseRefs : loose[k].resultSig = "open" }

Heap(s, l) == [stmts |-> s, loose |-> l]

\* the call in progress: what it wrote to the primary socket (batch), the
\* engine call's error (eerr), the error returned to the caller (err), the
\* identifier of the last backend message it consumed (last), the error of the
\* last ErrorResponse it consumed (sawE), the row count it returns (n), whether
\* a socket failure preceded it (failedBefore), whether its request went out
\* (sent), the completion signals it delivered (signals), whether the
\* handshake consumed an Authentication request it does not support, the
\* tag of the last CommandComplete it consumed (tag), and for StartUp the SSL
\* mode of the DSN (mode), how the TLS negotiation went (tls) and the last
\* value it consumed for each ParameterStatus key (conf), and the calls of
\* conn.Write its send made (writes), and the calls of CancelRequest its
\* watcher made (cancels)
NoCall ==
    [op |-> "none", st |-> "", sql |-> "", batch |-> <<>>, eerr |-> "nil",
     err |-> "nil", last |-> "none", sawE |-> "nil", n |-> 0,
     failedBefore |-> FALSE, sent |-> FALSE, signals |-> 0,
     unsupported |-> FALSE, tag |-> <<>>, mode |-> "", tls |-> "none",
     conf |-> [k \in ConfKeys |-> ""], writes |-> <<>>, cancels |-> 0]

Call(op, st, query) ==
    [NoCall EXCEPT !.op = op, !.st = st, !.sql = query,
                   !.failedBefore = sockFailed]

NoSide == [state |-> "none", frame |-> <<>>]

Init ==
    /\ pc = "new"
    /\ IOError = NewPgIO.IOError
    /\ conn = "open"
    /\ net = "up"
    /\ junk = 0
    /\ txStatus = NewPgIO.txStatus
    /\ serverPid = NewPgIO.serverPid
    /\ backendKey = NewPgIO.backendKey
    /\ ServerConf = NewPgIO.ServerConf
    /\ Location = NewPgIO.Location
    /\ stmts = [id \in StmtIds |-> NoStmt]
    /\ loose = [k \in LooseRefs |-> NoStmt]
    /\ cur = NoCall
    /\ watcher = "none"
    /\ ctx = "none"
    /\ cancelInFlight = FALSE
    /\ side = NoSide
    /\ lastRFQ = ""
    /\ lastKey = <<0, 0>>
    /\ awaiting = FALSE
    /\ accepted = {}

(***************************************************************************)
(* The TLS negotiation that opens StartUp.  dsn.SSL.Mode is one of the six *)
(* modes; StartUp negotiates unless it is disable or allow.                *)
(***************************************************************************)
SSLModes == {"disable", "allow", "prefer", "require", "verify-ca", "verify-full"}

\* the condition as it would be with the test of allow left out
NegotiatesTLSUnlessDisabled(mode) == mode /= "disable"

NegotiatesTLS(mode) == mode /= "disable" /\ mode /= "allow"

\* how a negotiation can go: the write of the SSLRequest fails; the read of the
\* answer fails; the server answers N; it answers S and the TLS handshake
\* fails; it answers S and the socket is wrapped in TLS
SSLOutcomes == {"wfail", "rfail", "N", "Sfail", "S"}

\* pi.ssl(): send the SSLRequest, read one byte; on S wrap the socket in TLS;
\* on N go on in plaintext under prefer and fail under the stricter modes
ssl(mode, out) ==
    CASE out \in {"wfail", "rfail"} -> "io"
      [] out = "Sfail" -> "tls"
      [] out = "N" -> IF mode = "prefer" THEN "nil" ELSE "tls refused"
      [] OTHER -> "nil"

(***************************************************************************)
(* PgIO.StartUp: the TLS negotiation when the mode asks for it, then the   *)
(* write of the StartupMessage with conn.Write (its error is returned,     *)
(* IOError is not assigned), then the receive loop.                        *)
(***************************************************************************)
StartUp ==
    /\ pc = "new"
    /\ \E mode \in SSLModes, wok \in BOOLEAN, pwok \in BOOLEAN,
          d \in HandshakeDeliveries :
       \E out \in (IF NegotiatesTLS(mode) THEN SSLOutcomes ELSE {"none"}) :
         LET sslerr == IF NegotiatesTLS(mode) THEN ssl(mode, out) ELSE "nil"
             e == CASE sslerr /= "nil" ->
                         [NewPgIO EXCEPT !.err = sslerr, !.failed = (sslerr = "io"),
                                         !.IOError = "io"]
                    [] wok -> StartUpLoop(NewPgIO, d, 1, pwok)
                    [] OTHER -> [NewPgIO EXCEPT !.err = "io", !.failed = TRUE]
             got == Consumed(d, e.next)
             hello == (IF out \in {"none", "wfail"} THEN <<>> ELSE <<"SSLRequest">>)
                      \o (IF sslerr = "nil" /\ wok THEN <<"StartupMessage">> ELSE <<>>)
         IN  /\ IOError' = e.IOError
             /\ txStatus' = e.txStatus
             /\ serverPid' = e.serverPid
             /\ backendKey' = e.backendKey
             /\ ServerConf' = e.ServerConf
             /\ Location' = e.Location
             /\ net' = IF e.failed THEN "down" ELSE "up"
             /\ junk' = e.j
             /\ lastRFQ' = ListStatus(got, lastRFQ)
             /\ lastKey' = LastKeyData(got, lastKey)
             /\ awaiting' = (sslerr = "nil" /\ wok /\ e.err /= "nil")
             /\ cur' = [Call("StartUp", "", "") EXCEPT
                          !.mode = mode, !.tls = out,
                          !.conf = LastConf(got, [k \in ConfKeys |-> ""]),
                          !.batch = hello,
                          !.sent = (sslerr = "nil" /\ wok),
                          !.eerr = e.err, !.err = e.err,
                          !.last = IF got = <<>> THEN "none" ELSE got[Len(got)].id,
                          !.sawE = ListError(got, "nil"),
                          !.unsupported =
                              \E k \in 1..Len(got) :
                                  got[k].id = IdentifiesAuth /\ got[k].a \notin {0, 3, 5}]
             /\ pc' = "ret"
    /\ UNCHANGED <<conn, stmts, loose, watcher, ctx, cancelInFlight, side, accepted>>

(***************************************************************************)
(* The engine calls, after their send: receive up to ReadyForQuery from    *)
(* delivery d and loop over the list.  Each returns the error, the         *)
(* transaction status and the row count, with the result r of the receive. *)
(***************************************************************************)
Reply(err, tx, n, r) == [err |-> err, tx |-> tx, n |-> n, r |-> r]

QueryNoArgs(d, tx) ==
    LET r == receivePgMsg(d, 1, IdentifiesReadyForQuery, <<>>)
    IN  IF r.err /= "nil" THEN Reply(r.err, tx, 0, r)
        ELSE Reply(ListError(r.ms, "nil"), ListStatus(r.ms, tx), 0, r)

Parse(d, tx) ==
    LET r == receivePgMsg(d, 1, IdentifiesReadyForQuery, <<>>)
    IN  IF r.err /= "nil" THEN Reply(r.err, tx, 0, r)
        ELSE Reply(ListError(r.ms, "nil"), ListStatus(r.ms, tx), 0, r)

ParseExec(d, tx) ==
    LET r == receivePgMsg(d, 1, IdentifiesReadyForQuery, <<>>)
    IN  IF r.err /= "nil" THEN Reply(r.err, tx, 0, r)
        ELSE Reply(ListError(r.ms, "nil"), ListStatus(r.ms, tx),
                   ListRows(r.ms, 0), r)

ParseQuery(d, tx) ==
    LET r == receivePgMsg(d, 1, IdentifiesReadyForQuery, <<>>)
    IN  IF r.err /= "nil" THEN Reply(r.err, tx, 0, r)
        ELSE Reply(ListError(r.ms, "nil"), ListStatus(r.ms, tx), 0, r)

\* CloseParse as it would be without its ReadyForQuery case
CloseParseKeepsStatus(d, tx) ==
    LET r == receivePgMsg(d, 1, IdentifiesReadyForQuery, <<>>)
    IN  IF r.err /= "nil" THEN Reply(r.err, tx, 0, r)
        ELSE Reply(ListError(r.ms, "nil"), tx, 0, r)

CloseParse(d, tx) ==
    LET r == receivePgMsg(d, 1, IdentifiesReadyForQuery, <<>>)
    IN  IF r.err /= "nil" THEN Reply(r.err, tx, 0, r)
        ELSE Reply(ListError(r.ms, "nil"), ListStatus(r.ms, tx), 0, r)

\* the engine call each operation makes, and the batch it sends
EngineOf(op) ==
    CASE op \in {"NewPgStmt", "NewNoPortalPgStmt"} -> "Parse"
      [] op \in {"Exec", "ExecContext"} -> "ParseExec"
      [] op \in {"Query", "QueryContext"} -> "ParseQuery"
      [] op = "Close" -> "CloseParse"
      [] op = "QueryNoArgs" -> "QueryNoArgs"
      [] op = "Terminate" -> "Terminate"
      [] OTHER -> "none"

BatchOf(engine) ==
    CASE engine = "Parse" -> <<"Parse", "Describe", "Sync">>
      [] engine \in {"ParseExec", "ParseQuery"} -> <<"Bind", "Execute", "Sync">>
      [] engine = "CloseParse" -> <<"Close", "Sync">>
      [] engine = "QueryNoArgs" -> <<"Query">>
      [] engine = "Terminate" -> <<"Terminate">>
      [] OTHER -> <<>>

EngineReply(engine, d, tx) ==
    CASE engine = "Parse" -> Parse(d, tx)
      [] engine = "ParseExec" -> ParseExec(d, tx)
      [] engine = "ParseQuery" -> ParseQuery(d, tx)
      [] engine = "CloseParse" -> CloseParse(d, tx)
      [] OTHER -> QueryNoArgs(d, tx)

(***************************************************************************)
(* What the backend answers to a request, each answer ending with          *)
(* ReadyForQuery.  A statement that a cancel request interrupted answers   *)
(* ErrorResponse 57014.                                                    *)
(***************************************************************************)
TxBytes == {"I", "T"}

Responses(engine) ==
    CASE engine = "Parse" ->
            { <<Plain("1"), Plain(IdentifiesParameterDescription),
                Plain(IdentifiesRowDescription), Ready(b)>> : b \in TxBytes }
            \cup { <<ErrorResponse(42601), Ready(b)>> : b \in TxBytes }
      [] engine = "ParseExec" ->
            { <<Plain("2"), CommandComplete(t), Ready(b)>> :
                  t \in {<<"UPDATE", "3">>, <<"INSERT", "0", "5">>}, b \in TxBytes }
            \cup { <<Plain("2"), ErrorResponse(23505), Ready(b)>> : b \in TxBytes }
      [] engine = "ParseQuery" ->
            { <<Plain("2"), Plain(IdentifiesDataRow),
                CommandComplete(<<"SELECT", "1">>), Ready(b)>> : b \in TxBytes }
            \cup { <<Plain("2"), ErrorResponse(22012), Ready(b)>> : b \in TxBytes }
      [] engine = "CloseParse" ->
            { <<Plain("3"), Ready(b)>> : b \in TxBytes }
            \cup { <<ErrorResponse(42601), Ready(b)>> : b \in TxBytes }
      [] OTHER ->
            { <<Plain(IdentifiesRowDescription), Plain(IdentifiesDataRow),
                CommandComplete(<<"SELECT", "1">>), Ready(b)>> : b \in TxBytes }
            \cup { <<ErrorResponse(42601), Ready(b)>> : b \in TxBytes }

Cancelled == { <<Plain("2"), ErrorResponse(57014), Ready(b)>> : b \in TxBytes }

\* the deliveries a receive may get: on a live socket a whole answer or one
\* cut short, on a dead one what the reader still holds
Deliveries(engine, cancelled) ==
    IF net = "down" THEN { Dead(junk) }
    ELSE LET rs == IF cancelled THEN Cancelled ELSE Responses(engine)
         IN  { Whole(resp) : resp \in rs } \cup UNION { Cuts(resp) : resp \in rs }

(***************************************************************************)
(* The end of an operation's engine call, eerr its error, h the statements *)
(* as the operation left them: NewPgStmt and NewNoPortalPgStmt make the    *)
(* channel and return the statement, NewPgStmt after caching it; Query and *)
(* QueryContext return a nil error; the context operations go on to their  *)
(* deferred complete().                                                    *)
(***************************************************************************)
ReturnedErr(op, eerr) ==
    IF op \in {"Query", "QueryContext"} THEN "nil" ELSE eerr

\* the first free place for a statement of NewNoPortalPgStmt
FreeLoose ==
    "#" \o ToString(CHOOSE n \in 1..MaxNoPortal :
                        /\ loose["#" \o ToString(n)] = NoStmt
                        /\ \A m \in 1..(n - 1) : loose["#" \o ToString(m)] /= NoStmt)

Finish(c, eerr, h) ==
    LET err == ReturnedErr(c.op, eerr)
    IN  /\ accepted' = IF c.op = "NewPgStmt" /\ eerr = "nil"
                        THEN accepted \cup {StmtId(c.sql)} ELSE accepted
        /\ CASE c.op = "NewPgStmt" ->
                  /\ stmts' = [h.stmts EXCEPT ![StmtId(c.sql)] = PgStmt(StmtId(c.sql), c.sql)]
                  /\ loose' = h.loose
                  /\ cur' = [c EXCEPT !.st = StmtId(c.sql), !.eerr = eerr, !.err = err]
             [] c.op = "NewNoPortalPgStmt" ->
                  /\ stmts' = h.stmts
                  /\ loose' = [h.loose EXCEPT ![FreeLoose] =
                                   IF err = "nil" THEN PgStmt("", c.sql) ELSE Dropped]
                  /\ cur' = [c EXCEPT !.st = FreeLoose, !.eerr = eerr, !.err = err]
             [] OTHER ->
                  /\ stmts' = h.stmts
                  /\ loose' = h.loose
                  /\ cur' = [c EXCEPT !.eerr = eerr, !.err = err]
        /\ pc' = IF c.op \in {"ExecContext", "QueryContext"} THEN "complete" ELSE "ret"

\* an operation that returns before any engine call
ReturnNow(c, st, err, h) ==
    /\ cur' = [c EXCEPT !.st = st, !.err = err]
    /\ stmts' = h.stmts
    /\ loose' = h.loose
    /\ pc' = IF c.op \in {"ExecContext", "QueryContext"} THEN "complete" ELSE "ret"
    /\ UNCHANGED <<IOError, net, awaiting, accepted>>

(***************************************************************************)
(* The engine call's send, for call c: PgIO.send assigns the Write's error *)
(* to IOError; a failed send ends the call.                                *)
(***************************************************************************)
WriteOutcomes == IF conn = "open" THEN BOOLEAN ELSE {FALSE}

Send(c, h) ==
    \E wok \in WriteOutcomes :
        LET c1 == [c EXCEPT !.batch = BatchOf(EngineOf(c.op)), !.sent = wok,
                            !.writes = SendWrites(BatchOf(EngineOf(c.op)))]
        IN  /\ IOError' = send(wok)
            /\ net' = IF wok THEN net ELSE "down"
            /\ awaiting' = (awaiting \/ wok)
            /\ IF wok
               THEN /\ pc' = "recv"
                    /\ cur' = c1
                    /\ stmts' = h.stmts
                    /\ loose' = h.loose
                    /\ accepted' = accepted
               ELSE Finish(c1, "io", h)

(***************************************************************************)
(* NewPgStmt(conn, query).                                                 *)
(***************************************************************************)
\* the lookup as it would be if it never found the statement
CacheLookupMiss(id) == NoStmt

\* conn.stmts[id]
CacheLookup(id) == stmts[id]

NewPgStmt(query) ==
    /\ pc = "idle"
    /\ LET c == Call("NewPgStmt", "", query)
           st == CacheLookup(StmtId(query))
       IN  IF IOError /= "nil"
           THEN ReturnNow(c, "", "badconn", Heap(stmts, loose))
           ELSE IF st /= NoStmt
                THEN ReturnNow(c, st.Identifies, "nil", Heap(stmts, loose))
                ELSE Send(c, Heap(stmts, loose))
    /\ UNCHANGED <<conn, junk, txStatus, serverPid, backendKey, ServerConf, Location,
                   watcher, ctx, cancelInFlight, side, lastRFQ, lastKey>>

(***************************************************************************)
(* NewNoPortalPgStmt(conn, query): the statement is not cached, and its    *)
(* name is still empty when it is parsed.                                  *)
(***************************************************************************)
NewNoPortalPgStmt(query) ==
    /\ pc = "idle"
    /\ \E k \in LooseRefs : loose[k] = NoStmt
    /\ LET c == Call("NewNoPortalPgStmt", "", query)
       IN  IF IOError /= "nil"
           THEN ReturnNow(c, "", "badconn", Heap(stmts, loose))
           ELSE Send(c, Heap(stmts, loose))
    /\ UNCHANGED <<conn, junk, txStatus, serverPid, backendKey, ServerConf, Location,
                   watcher, ctx, cancelInFlight, side, lastRFQ, lastKey>>

(***************************************************************************)
(* PgStmt.Close: close(s.resultSig), which panics on a closed channel,     *)
(* then CloseParse.  The caller drops the statement.                       *)
(***************************************************************************)
Closed(st) ==
    IF st \in StmtIds
    THEN Heap([stmts EXCEPT ![st].resultSig = "closed"], loose)
    ELSE Heap(stmts, [loose EXCEPT ![st] = Dropped])

Released(st) ==
    IF st \in StmtIds THEN Heap(stmts, loose)
    ELSE Heap(stmts, [loose EXCEPT ![st] = Dropped])

Close(st) ==
    /\ pc = "idle"
    /\ st \in Held
    /\ LET c == Call("Close", st, "")
       IN  IF IOError /= "nil"
           THEN ReturnNow(c, st, "badconn", Released(st))
           ELSE IF Obj(st).resultSig = "closed"
                THEN /\ pc' = "panic"
                     /\ cur' = c
                     /\ UNCHANGED <<IOError, net, stmts, loose, awaiting, accepted>>
                ELSE Send(c, Closed(st))
    /\ UNCHANGED <<conn, junk, txStatus, serverPid, backendKey, ServerConf, Location,
                   watcher, ctx, cancelInFlight, side, lastRFQ, lastKey>>

(***************************************************************************)
(* PgStmt.Exec and PgStmt.Query (Query does not look at IOError).          *)
(***************************************************************************)
Exec(st) ==
    /\ pc = "idle"
    /\ st \in Held
    /\ LET c == Call("Exec", st, "")
       IN  IF IOError /= "nil"
           THEN ReturnNow(c, st, "badconn", Heap(stmts, loose))
           ELSE Send(c, Heap(stmts, loose))
    /\ UNCHANGED <<conn, junk, txStatus, serverPid, backendKey, ServerConf, Location,
                   watcher, ctx, cancelInFlight, side, lastRFQ, lastKey>>

Query(st) ==
    /\ pc = "idle"
    /\ st \in Held
    /\ Send(Call("Query", st, ""), Heap(stmts, loose))
    /\ UNCHANGED <<conn, junk, txStatus, serverPid, backendKey, ServerConf, Location,
                   watcher, ctx, cancelInFlight, side, lastRFQ, lastKey>>

(***************************************************************************)
(* PgStmt.ExecContext and PgStmt.QueryContext, up to the engine call's     *)
(* send: go s.watchCancel(ctx); defer s.complete().                        *)
(***************************************************************************)
ExecContext(st) ==
    /\ pc = "idle"
    /\ st \in Held
    /\ watcher' = "select"
    /\ ctx' = "live"
    /\ LET c == Call("ExecContext", st, "")
       IN  IF IOError /= "nil"
           THEN ReturnNow(c, st, "badconn", Heap(stmts, loose))
           ELSE Send(c, Heap(stmts, loose))
    /\ UNCHANGED <<conn, junk, txStatus, serverPid, backendKey, ServerConf, Location,
                   cancelInFlight, side, lastRFQ, lastKey>>

QueryContext(st) ==
    /\ pc = "idle"
    /\ st \in Held
    /\ watcher' = "select"
    /\ ctx' = "live"
    /\ LET c == Call("QueryContext", st, "")
       IN  IF IOError /= "nil"
           THEN ReturnNow(c, st, "badconn", Heap(stmts, loose))
           ELSE Send(c, Heap(stmts, loose))
    /\ UNCHANGED <<conn, junk, txStatus, serverPid, backendKey, ServerConf, Location,
                   cancelInFlight, side, lastRFQ, lastKey>>

(***************************************************************************)
(* PgIO.QueryNoArgs called on the connection, up to its send.              *)
(***************************************************************************)
SimpleQuery ==
    /\ pc = "idle"
    /\ Send(Call("QueryNoArgs", "", ""), Heap(stmts, loose))
    /\ UNCHANGED <<conn, junk, txStatus, serverPid, backendKey, ServerConf, Location,
                   watcher, ctx, cancelInFlight, side, lastRFQ, lastKey>>

(***************************************************************************)
(* PgIO.Terminate: the socket is closed, and IOError made ErrBadConn, when *)
(* the send failed.                                                        *)
(***************************************************************************)
Terminate ==
    /\ pc = "idle"
    /\ \E wok \in WriteOutcomes :
         LET err == send(wok)
         IN  /\ conn' = IF err /= "nil" THEN "closed" ELSE conn
             /\ IOError' = IF err /= "nil" THEN "badconn" ELSE err
             /\ net' = IF wok THEN net ELSE "down"
             /\ cur' = [Call("Terminate", "", "") EXCEPT
                          !.batch = BatchOf("Terminate"), !.sent = wok,
                          !.writes = SendWrites(BatchOf("Terminate")),
                          !.eerr = err, !.err = err]
             /\ pc' = "ret"
    /\ UNCHANGED <<junk, txStatus, serverPid, backendKey, ServerConf, Location,
                   stmts, loose, watcher, ctx, cancelInFlight, side, lastRFQ, lastKey,
                   awaiting, accepted>>

(***************************************************************************)
(* The engine call in progress reads its answer (receivePgMsg up to        *)
(* ReadyForQuery, then the loop over the list) and returns.  A cancel      *)
(* request in flight may have interrupted the statement.                   *)
(***************************************************************************)
Recv ==
    /\ pc = "recv"
    /\ \E cancelled \in (IF cancelInFlight /\ net = "up" THEN BOOLEAN ELSE {FALSE}) :
       \E d \in Deliveries(EngineOf(cur.op), cancelled) :
         LET rep == EngineReply(EngineOf(cur.op), d, txStatus)
             r == rep.r
             failed == (r.err = "io")
         IN  /\ IOError' = IF r.ioerr THEN "io" ELSE IOError
             /\ txStatus' = rep.tx
             /\ lastRFQ' = ListStatus(r.ms, lastRFQ)
             /\ net' = IF failed THEN "down" ELSE net
             /\ junk' = IF failed THEN r.j ELSE junk
             /\ cancelInFlight' = IF cancelled THEN FALSE ELSE cancelInFlight
             /\ awaiting' = (r.err /= "nil")
             /\ Finish([cur EXCEPT
                          !.last = IF r.ms = <<>> THEN "none" ELSE r.ms[Len(r.ms)].id,
                          !.sawE = ListError(r.ms, "nil"),
                          !.n = rep.n,
                          !.tag = LastTag(r.ms, <<>>)],
                       rep.err, Heap(stmts, loose))
    /\ UNCHANGED <<conn, serverPid, backendKey, ServerConf, Location, watcher, ctx,
                   side, lastKey>>

(***************************************************************************)
(* PgStmt.complete, deferred by ExecContext and QueryContext: the send on  *)
(* the unbuffered resultSig.  It panics on a closed channel, and otherwise *)
(* needs the watcher at its select to receive.                             *)
(***************************************************************************)
CompletePanic ==
    /\ pc = "complete"
    /\ Obj(cur.st).resultSig = "closed"
    /\ pc' = "panic"
    /\ UNCHANGED <<IOError, conn, net, junk, txStatus, serverPid, backendKey,
                   ServerConf, Location, stmts, loose, cur, watcher, ctx,
                   cancelInFlight, side, lastRFQ, lastKey, awaiting,
                   accepted>>

Complete ==
    /\ pc = "complete"
    /\ Obj(cur.st).resultSig = "open"
    /\ watcher = "select"
    /\ watcher' = "done"
    /\ cur' = [cur EXCEPT !.signals = @ + 1]
    /\ pc' = "ret"
    /\ UNCHANGED <<IOError, conn, net, junk, txStatus, serverPid, backendKey,
                   ServerConf, Location, stmts, loose, ctx, cancelInFlight, side,
                   lastRFQ, lastKey, awaiting,
                   accepted>>

(***************************************************************************)
(* PgIO.CancelRequest: dial the side connection, write the frame, and      *)
(* close the connection with a defer that is set after the write           *)
(* succeeded.                                                              *)
(***************************************************************************)
CancelRequest(dialok, wok) ==
    IF ~dialok THEN [state |-> "undialled", frame |-> <<>>]
    ELSE IF ~wok THEN [state |-> "open", frame |-> <<>>]
    ELSE [state |-> "closed",
          frame |-> <<CancelRequestCode, serverPid, backendKey>>]

(***************************************************************************)
(* PgStmt.watchCancel: the select takes ctx.Done() and calls cancel(), or  *)
(* receives from resultSig (from complete(), above, or at once from a      *)
(* closed channel).                                                        *)
(***************************************************************************)
\* the watcher as it would be if it called cancel() whatever its select took
WatchCancelAlways ==
    /\ watcher = "select"
    /\ \E dialok \in BOOLEAN, wok \in BOOLEAN :
         /\ side' = CancelRequest(dialok, wok)
         /\ cancelInFlight' = (cancelInFlight \/ (dialok /\ wok))
    /\ watcher' = "done"
    /\ cur' = [cur EXCEPT !.cancels = @ + 1]
    /\ UNCHANGED <<pc, IOError, conn, net, junk, txStatus, serverPid, backendKey,
                   ServerConf, Location, stmts, loose, ctx, lastRFQ, lastKey, awaiting,
                   accepted>>

WatchCancelDone ==
    /\ watcher = "select"
    /\ ctx = "done"
    /\ \E dialok \in BOOLEAN, wok \in BOOLEAN :
         /\ side' = CancelRequest(dialok, wok)
         /\ cancelInFlight' = (cancelInFlight \/ (dialok /\ wok))
    /\ watcher' = "done"
    /\ cur' = [cur EXCEPT !.cancels = @ + 1]
    /\ UNCHANGED <<pc, IOError, conn, net, junk, txStatus, serverPid, backendKey,
                   ServerConf, Location, stmts, loose, ctx, lastRFQ, lastKey, awaiting,
                   accepted>>

WatchCancelClosed ==
    /\ watcher = "select"
    /\ Obj(cur.st).resultSig = "closed"
    /\ watcher' = "done"
    /\ UNCHANGED <<pc, IOError, conn, net, junk, txStatus, serverPid, backendKey,
                   ServerConf, Location, stmts, loose, cur, ctx, cancelInFlight, side,
                   lastRFQ, lastKey, awaiting,
                   accepted>>

(***************************************************************************)
(* The operation returns to its caller.  A failed StartUp leaves a         *)
(* connection that is never used; so does Terminate.                       *)
(***************************************************************************)
Return ==
    /\ pc = "ret"
    /\ pc' = CASE cur.op = "StartUp" /\ cur.err /= "nil" -> "dead"
               [] cur.op = "Terminate" -> "terminated"
               [] OTHER -> "idle"
    /\ cur' = NoCall
    /\ watcher' = "none"
    /\ ctx' = "none"
    /\ UNCHANGED <<IOError, conn, net, junk, txStatus, serverPid, backendKey,
                   ServerConf, Location, stmts, loose, cancelInFlight, side,
                   lastRFQ, lastKey, awaiting,
                   accepted>>

(***************************************************************************)
(* The environment: the caller cancels the context; the backend, with no   *)
(* statement running, drops a cancel request.                              *)
(***************************************************************************)
CtxCancel ==
    /\ ctx = "live"
    /\ ctx' = "done"
    /\ UNCHANGED <<pc, IOError, conn, net, junk, txStatus, serverPid, backendKey,
                   ServerConf, Location, stmts, loose, cur, watcher, cancelInFlight,
                   side, lastRFQ, lastKey, awaiting,
                   accepted>>

BackendDropsCancel ==
    /\ cancelInFlight
    /\ pc /= "recv"
    /\ cancelInFlight' = FALSE
    /\ UNCHANGED <<pc, IOError, conn, net, junk, txStatus, serverPid, backendKey,
                   ServerConf, Location, stmts, loose, cur, watcher, ctx, side,
                   lastRFQ, lastKey, awaiting,
                   accepted>>

Refs == StmtIds \cup LooseRefs

Step ==
    \/ StartUp
    \/ \E q \in SQLs : NewPgStmt(q)
    \/ \E q \in NoPortalSQLs : NewNoPortalPgStmt(q)
    \/ \E st \in Refs : Close(st)
    \/ \E st \in Refs : Exec(st)
    \/ \E st \in Refs : Query(st)
    \/ \E st \in Refs : ExecContext(st)
    \/ \E st \in Refs : QueryContext(st)
    \/ SimpleQuery
    \/ Terminate
    \/ Recv
    \/ Complete
    \/ CompletePanic
    \/ WatchCancelDone
    \/ WatchCancelClosed
    \/ Return

Next == Step \/ CtxCancel \/ BackendDropsCancel

Spec == Init /\ [][Next]_vars

\* the goroutines are scheduled and the backend answers: a step of the program
\* that stays possible is taken
FairSpec == Spec /\ WF_vars(Step)

(***************************************************************************)
(* receivePgMsg on its own: the reader holds any stream of at most         *)
(* MaxStream messages, which then ends in one of the three ways, and       *)
(* receivePgMsg(sep) is called once.  cur holds the stream (d), the        *)
(* separator (sep) and, after the call, the result (r).                    *)
(***************************************************************************)
StreamMsgs == {Auth(0), ErrorResponse(42601), Ready("I"), Plain(IdentifiesDataRow)}

Streams == UNION { [1..n -> StreamMsgs] : n \in 0..MaxStream }

StreamDeliveries ==
    { Delivery(ms, "id", 0) : ms \in Streams }
    \cup { Delivery(ms, "payload", 0) : ms \in Streams }
    \cup { Delivery(ms, "len", j) : ms \in Streams, j \in 0..MaxJunk }

Separators == {IdentifiesAuth, IdentifiesReadyForQuery}

RecvInit ==
    /\ pc = "call"
    /\ \E d \in StreamDeliveries, sep \in Separators :
           cur = [op |-> "receivePgMsg", d |-> d, sep |-> sep,
                  r |-> RecvResult(<<>>, "nil", FALSE, 1, 0)]
    /\ IOError = NewPgIO.IOError
    /\ conn = "open"
    /\ net = "up"
    /\ junk = 0
    /\ txStatus = NewPgIO.txStatus
    /\ serverPid = NewPgIO.serverPid
    /\ backendKey = NewPgIO.backendKey
    /\ ServerConf = NewPgIO.ServerConf
    /\ Location = NewPgIO.Location
    /\ stmts = [id \in StmtIds |-> NoStmt]
    /\ loose = [k \in LooseRefs |-> NoStmt]
    /\ watcher = "none"
    /\ ctx = "none"
    /\ cancelInFlight = FALSE
    /\ side = NoSide
    /\ lastRFQ = ""
    /\ lastKey = <<0, 0>>
    /\ awaiting = FALSE
    /\ accepted = {}

RecvCall ==
    /\ pc = "call"
    /\ LET r == receivePgMsg(cur.d, 1, cur.sep, <<>>)
       IN  /\ cur' = [cur EXCEPT !.r = r]
           /\ IOError' = IF r.ioerr THEN "io" ELSE IOError
           /\ net' = IF r.err = "io" THEN "down" ELSE net
           /\ junk' = r.j
    /\ pc' = "returned"
    /\ UNCHANGED <<conn, txStatus, serverPid, backendKey, ServerConf, Location,
                   stmts, loose, watcher, ctx, cancelInFlight, side, lastRFQ,
                   lastKey, awaiting, accepted>>

RecvSpec == RecvInit /\ [][RecvCall]_vars


(***************************************************************************)
(* The claims.                                                             *)
(***************************************************************************)
EngineCalls == {"QueryNoArgs", "Parse", "ParseExec", "ParseQuery", "CloseParse"}

\* the engine call of the operation in progress has returned
EngineReturned ==
    /\ pc \in {"ret", "complete"}
    /\ EngineOf(cur.op) \in EngineCalls
    /\ cur.batch /= <<>>

ContextOps == {"ExecContext", "QueryContext"}

(* C1, as claimed: whenever an engine call whose request went out returns,  *)
(* with success or with any error, the last backend message it consumed is  *)
(* ReadyForQuery.                                                           *)
C1_DrainToReady_Original ==
    (EngineReturned /\ cur.sent) => cur.last = IdentifiesReadyForQuery

(* C1, amended: whenever an engine call returns with success or with the    *)
(* error of an ErrorResponse (so without a socket failure), the last        *)
(* backend message it consumed is ReadyForQuery.                            *)
C1_DrainToReady ==
    (EngineReturned /\ cur.eerr /= "io") => cur.last = IdentifiesReadyForQuery

\* an Exec returned a server error, after reading on to ReadyForQuery
C1_Witness ==
    /\ pc = "ret"
    /\ cur.op = "Exec"
    /\ cur.eerr = "srv23505"
    /\ cur.last = IdentifiesReadyForQuery

(* C2: after a socket failure on the primary connection, every statement     *)
(* operation returns the bad-connection error and writes nothing to the      *)
(* socket.                                                                   *)
C2_StickyBadConn ==
    (/\ pc \in {"ret", "complete"}
     /\ cur.op \in {"NewPgStmt", "NewNoPortalPgStmt", "Exec", "Query",
                    "ExecContext", "QueryContext", "Close"}
     /\ cur.failedBefore)
    => (cur.err = "badconn" /\ cur.batch = <<>>)

(* C3: a NewPgStmt call for SQL whose statement is cached writes nothing to  *)
(* the socket and leaves the cache as it is, and on a connection not marked  *)
(* bad it returns the cached statement, with the name the first call gave    *)
(* it, and no error (on one marked bad, the bad-connection error).           *)
C3_CacheIdentity ==
    [][(/\ pc = "idle"
        /\ cur'.op = "NewPgStmt"
        /\ stmts[StmtId(cur'.sql)] /= NoStmt)
       => (/\ pc' = "ret"
           /\ cur'.batch = <<>>
           /\ stmts' = stmts
           /\ IF IOError = "nil"
              THEN /\ cur'.err = "nil"
                   /\ cur'.st = stmts[StmtId(cur'.sql)].Identifies
                   /\ cur'.st = StmtId(cur'.sql)
              ELSE cur'.err = "badconn")]_vars

\* NewPgStmt returned the cached statement, which a Close had closed meanwhile
C3_Witness ==
    /\ pc = "ret"
    /\ cur.op = "NewPgStmt"
    /\ cur.err = "nil"
    /\ cur.batch = <<>>
    /\ cur.st = StmtId(cur.sql)
    /\ stmts[cur.st].resultSig = "closed"

(* C4: a context operation that has finished can deliver its completion     *)
(* signal (the watcher is there to receive it), and once it has returned it *)
(* has sent exactly one and its watcher has ended.                          *)
C4_CompletionSignal ==
    /\ (pc = "complete" =>
            (watcher = "select" /\ Obj(cur.st).resultSig = "open"))
    /\ ((pc = "ret" /\ cur.op \in ContextOps) =>
            (cur.signals = 1 /\ watcher = "done"))

(* C5: when a context operation was cancelled and has read the backend's    *)
(* ErrorResponse 57014 and ReadyForQuery, it returns to the caller with     *)
(* IOError unset, and the connection is idle for the next query.            *)
C5_CancelLeavesUsable ==
    (/\ pc = "complete"
     /\ cur.sawE = "srv57014"
     /\ cur.last = IdentifiesReadyForQuery)
    ~> (pc = "idle" /\ IOError = "nil")

(* C6: an ErrorResponse in a response that was read up to ReadyForQuery is  *)
(* the error the engine call returns, and the error Exec, Query,            *)
(* ExecContext and QueryContext return.                                     *)
C6_ErrorSurfaced ==
    (/\ EngineReturned
     /\ cur.sawE /= "nil"
     /\ cur.last = IdentifiesReadyForQuery)
    => /\ cur.eerr = cur.sawE
       /\ (pc = "ret" /\ cur.op \in {"Exec", "Query", "ExecContext", "QueryContext"})
              => cur.err = cur.sawE

(* C7: the stored transaction status is the status byte of the last         *)
(* ReadyForQuery read from the socket (the zero value before any).          *)
C7_TxStatus == txStatus = lastRFQ

\* a Close returned after reading a ReadyForQuery that changed the status
C7_Witness ==
    /\ pc = "ret"
    /\ cur.op = "Close"
    /\ cur.last = IdentifiesReadyForQuery
    /\ txStatus = "T"

(* C8: a handshake that consumed an Authentication message with a code      *)
(* other than 0, 3 and 5 fails with the unsupported-method error.           *)
C8_UnsupportedAuth ==
    (pc = "ret" /\ cur.op = "StartUp" /\ cur.unsupported)
    => cur.err = "unsupported authentication method"

(* C9: after Terminate returns, the socket is closed and IOError is set.    *)
C9_Terminate ==
    (pc = "ret" /\ cur.op = "Terminate")
    => (conn = "closed" /\ IOError /= "nil")

(* C10: after a CancelRequest whose dial succeeded, the side connection is  *)
(* closed, and a frame it wrote carries the pid and key of the handshake's  *)
(* BackendKeyData.                                                          *)
C10_CancelRequest ==
    /\ side.state \in {"open", "closed"} => side.state = "closed"
    /\ side.frame /= <<>> =>
           side.frame = <<CancelRequestCode, lastKey[1], lastKey[2]>>

(* C11: once IOError holds an error, no step of the program assigns it      *)
(* again: it keeps the error it holds.                                      *)
C11_WrittenOnce == [][IOError /= "nil" => IOError' = IOError]_vars

(* C12: while a request's response has not been read up to its             *)
(* ReadyForQuery, the next call of the caller writes no request (Query,     *)
(* Parse batch, Bind/Execute batch, Close batch) to the primary socket.     *)
C12_NoRequestWhileAwaiting ==
    [][(pc = "idle" /\ awaiting)
       => ~(cur'.sent /\ EngineOf(cur'.op) \in EngineCalls)]_vars

\* the decimal strings of the model's tags
Counts == {"0", "1", "2", "3", "5"}

(* C13: when Exec or ExecContext has read a response with a CommandComplete *)
(* tag of two or three fields whose last field is a count, the row count it *)
(* returns is that last field.                                              *)
C13_RowCount ==
    (/\ pc \in {"ret", "complete"}
     /\ cur.op \in {"Exec", "ExecContext"}
     /\ cur.last = IdentifiesReadyForQuery
     /\ Len(cur.tag) \in {2, 3}
     /\ cur.tag[Len(cur.tag)] \in Counts)
    => cur.n = Atoi(cur.tag[Len(cur.tag)])

\* the places of the messages of ms with identifier id
Places(ms, id) == { k \in 1..Len(ms) : ms[k].id = id }

(* C14: receivePgMsg(sep) returns the messages of the stream in the order   *)
(* they arrived, up to and with the first one whose identifier is sep, and  *)
(* has consumed nothing after it, whatever ErrorResponses came before it;   *)
(* without such a message it returns all the messages with the read error.  *)
C14_StopsAtFirstSep ==
    pc = "returned" =>
        LET r == cur.r
            all == cur.d.msgs
            seps == Places(all, cur.sep)
        IN  /\ Len(r.ms) <= Len(all)
            /\ r.ms = SubSeq(all, 1, Len(r.ms))
            /\ r.next = Len(r.ms) + 1
            /\ IF seps /= {}
               THEN /\ r.err = "nil"
                    /\ Len(r.ms) \in seps
                    /\ \A k \in seps : Len(r.ms) <= k
               ELSE /\ r.err = "io"
                    /\ r.ms = all

\* the call read on past an ErrorResponse and stopped at the first
\* ReadyForQuery, leaving another in the reader
C14_Witness ==
    /\ pc = "returned"
    /\ cur.sep = IdentifiesReadyForQuery
    /\ cur.d.msgs = <<ErrorResponse(42601), Ready("I"), Ready("I")>>
    /\ cur.r.err = "nil"
    /\ cur.r.ms = <<ErrorResponse(42601), Ready("I")>>
    /\ cur.r.next = 3

\* the TLS negotiation of the StartUp that returned has failed
NegotiationFailed ==
    \/ cur.tls \in {"wfail", "rfail", "Sfail"}
    \/ cur.tls = "N" /\ cur.mode /= "prefer"

C16_StartUpPostState ==
    (pc = "ret" /\ cur.op = "StartUp") =>
        /\ (cur.err = "nil") <=> (cur.last = IdentifiesReadyForQuery)
        /\ cur.err = "nil" =>
               /\ serverPid = lastKey[1]
               /\ backendKey = lastKey[2]
               /\ ServerConf = cur.conf
               /\ Location = IF ServerConf["TimeZone"] \in KnownZones
                             THEN ServerConf["TimeZone"] ELSE ""

\* a handshake that repeated its keys and ended on a TimeZone no zone has
C16_Witness ==
    /\ pc = "ret"
    /\ cur.op = "StartUp"
    /\ cur.err = "nil"
    /\ ServerConf["TimeZone"] = "Mars/Phobos"
    /\ ServerConf["server_version"] = "13.0"
    /\ Location = ""
    /\ serverPid = 1
    /\ backendKey = 2

(* C17: an engine call of the extended protocol that has sent its request   *)
(* made one call of conn.Write, whose buffer holds the batch in the order   *)
(* composed (Parse, Describe, Sync; Bind, Execute, Sync; Close, Sync), and  *)
(* it reads the response only after that write.                             *)
C17_OneWrite ==
    (/\ pc \in {"recv", "ret", "complete"}
     /\ EngineOf(cur.op) \in {"Parse", "ParseExec", "ParseQuery", "CloseParse"}
     /\ (cur.batch /= <<>> \/ pc = "recv"))
    => cur.writes =
          CASE EngineOf(cur.op) = "Parse" -> << <<"Parse", "Describe", "Sync">> >>
            [] EngineOf(cur.op) = "CloseParse" -> << <<"Close", "Sync">> >>
            [] OTHER -> << <<"Bind", "Execute", "Sync">> >>

\* a Close is reading the response to its one write of Close and Sync
C17_Witness ==
    /\ pc = "recv"
    /\ cur.op = "Close"
    /\ cur.writes = << <<"Close", "Sync">> >>

(* C18: no call sends on a resultSig that was closed or closes one a second *)
(* time (either makes the Go runtime panic), so the statement NewPgStmt     *)
(* returns after a Close of the earlier one can be used.                    *)
C18_ChannelSafety == pc /= "panic"

(* C19: a CancelRequest is issued only for a context operation that has not *)
(* returned, only after its context was cancelled, and only when none was   *)
(* issued for that operation before.                                        *)
C19_OneCancel ==
    [][cur'.cancels > cur.cancels
       => (/\ cur.cancels = 0
           /\ ctx = "done"
           /\ cur.op \in ContextOps
           /\ cur'.op = cur.op
           /\ pc \notin {"idle", "ret"})]_vars

\* the watcher of a QueryContext sent its one CancelRequest, and the operation
\* has finished reading
C19_Witness ==
    /\ pc = "complete"
    /\ cur.op = "QueryContext"
    /\ cur.cancels = 1
    /\ side.frame = <<CancelRequestCode, serverPid, backendKey>>

(* C20: a statement that NewPgStmt returns with a nil error is one whose    *)
(* Parse the server accepted on this connection.                            *)
C20_ParsedOrError ==
    (pc = "ret" /\ cur.op = "NewPgStmt" /\ cur.err = "nil")
    => cur.st \in accepted

====
